---------------------------- MODULE Spec2Model ----------------------------
(***************************************************************************)
(* A model of the 48-channel battery monitor mock-up:                      *)
(*   old/48ch_gui.py  the Tk dashboard (class BatteryMonitorApp)            *)
(*   old/main.py      the console variant (generate_channel_data, main)     *)
(* The two programs never interact; a behaviour is a run of one of them,   *)
(* chosen by `program`.                                                    *)
(*                                                                         *)
(* Voltages and currents are integers in thousandths (3.500 V = 3500), so  *)
(* that round(x, 3) and the "%.3f" / "%.1f" formats are exact integer      *)
(* operations.  A text is the record of its digits: whole part, fraction   *)
(* digits and unit.                                                        *)
(***************************************************************************)
EXTENDS Integers, Sequences, FiniteSets, TLC

(***************************************************************************)
(* Program constants.                                                      *)
(***************************************************************************)
NumChannels == 48
VoltLo == 3000
VoltHi == 4200
CurLo == 1
CurHi == 1000
LowThreshold == 3100
HighThreshold == 4150
RedChannel == 1
YellowChannel == 9

(***************************************************************************)
(* Bounds of the model: the family of random streams a generation may see. *)
(***************************************************************************)
MaxSeed == 7
MaxStep == 1

(***************************************************************************)
(* The random source.  random.random() yields a number in [0, 1); the      *)
(* model draws it from Samples, as the fraction num/den.  The samples hit  *)
(* both ends of both ranges, both sides of both colour thresholds and the  *)
(* thresholds themselves.  The generator draws twice per channel (voltage, *)
(* then current), so draw n belongs to channel n \div 2 + 1.  A stream is  *)
(* a seed and a step: its voltage draws walk through Samples from `seed`   *)
(* in steps of `step` per channel, and each current draw is the sample     *)
(* half a round further.  Step 0 gives 48 equal readings, step 1 gives     *)
(* every sample to some channel.                                           *)
(***************************************************************************)
Samples ==
  << [num |-> 5,    den |-> 12],      \* 3.500 V
     [num |-> 0,    den |-> 1],       \* 3.000 V, 0.001 A
     [num |-> 99,   den |-> 1200],    \* 3.099 V
     [num |-> 100,  den |-> 1200],    \* 3.100 V
     [num |-> 499,  den |-> 999],     \* 0.500 A
     [num |-> 1150, den |-> 1200],    \* 4.150 V
     [num |-> 1177, den |-> 1200],    \* 4.177 V
     [num |-> 9999, den |-> 10000] >> \* 4.200 V, 1.000 A

Streams == [seed : 0..MaxSeed, step : 0..MaxStep]

Draw(stream, n) ==
  LET walk == stream.seed + stream.step * (n \div 2)
      half == (Len(Samples) \div 2) * (n % 2)
  IN  Samples[((walk + half) % Len(Samples)) + 1]

\* a uniform that scales by hi instead of hi - lo
UniformNoOffset(lo, hi, r) == [num |-> lo * r.den + hi * r.num, den |-> r.den]

\* random.uniform(lo, hi) = lo + (hi - lo) * random(), as a fraction of thousandths
Uniform(lo, hi, r) == [num |-> lo * r.den + (hi - lo) * r.num, den |-> r.den]

\* round(x, 3): the nearest thousandth, a tie going to the even one
Round3(x) ==
  LET q == (2 * x.num + x.den) \div (2 * x.den)
      tie == (2 * x.num + x.den) % (2 * x.den) = 0
  IN  IF tie /\ q % 2 = 1 THEN q - 1 ELSE q

(***************************************************************************)
(* Texts.  f"{x:.3f} <unit>" keeps the three decimals of a thousandth;     *)
(* f"{x:.1f} V" rounds to a tenth.  The totals are sums of binary floats,  *)
(* so a total lying exactly between two tenths is shown as either.         *)
(***************************************************************************)
Fmt3(x, unit) == [whole |-> x \div 1000, frac |-> x % 1000, digits |-> 3, unit |-> unit]

Tenths(x) ==
  LET t == x \div 100
      r == x % 100
  IN  IF r < 50 THEN {t} ELSE IF r > 50 THEN {t + 1} ELSE {t, t + 1}

Fmt1(x, unit) ==
  { [whole |-> t \div 10, frac |-> t % 10, digits |-> 1, unit |-> unit] : t \in Tenths(x) }

(***************************************************************************)
(* State.                                                                  *)
(*   program             "gui" | "cli" | "classifier": which run this is   *)
(* GUI (BatteryMonitorApp):                                                *)
(*   channel_data        self.channel_data: channel -> reading             *)
(*   channel_labels      self.channel_labels: channel -> voltage label     *)
(*                       (its text and ttk style)                          *)
(*   channel_frames      self.channel_frames: channel -> data frame (bg)   *)
(*   status_info_labels  the two dynamic labels of the status panel        *)
(*   guiPc               "idle" (in mainloop, no callback running), the    *)
(*                       position inside update_data_periodically, or      *)
(*                       "closed"                                          *)
(*   timers              pending root.after(15000, ...) timers             *)
(*   channel_num         loop variable of the render loop                  *)
(* CLI (main):                                                             *)
(*   cliPc               position inside main, "done" (main returned) or   *)
(*                       "crashed" (an exception left main)                *)
(*   data                the local `data` of main                          *)
(*   channel             position of `for channel in data`                 *)
(*   printed             channel lines written since the last header       *)
(*   stopMsgs            how often the termination message was written     *)
(* Classifier run:                                                         *)
(*   styled              arguments and result of one _apply_channel_style  *)
(* History (read by the properties only):                                  *)
(*   genCalls, aggCalls  calls of the generator / the aggregate in the     *)
(*                       current cycle (construction counts as a cycle)    *)
(*   rendered            channels whose cell was written in this cycle     *)
(*   waited              a timer has fired (GUI) / a sleep returned (CLI)  *)
(*   interruptedAt       where Ctrl+C arrived, or "none"                   *)
(*   faulted             where another exception was raised, or "none"     *)
(***************************************************************************)
VARIABLES program,
          channel_data, channel_labels, channel_frames, status_info_labels,
          guiPc, timers, channel_num,
          cliPc, data, channel, printed, stopMsgs,
          styled,
          genCalls, aggCalls, rendered, waited, interruptedAt, faulted

guiVars == <<channel_data, channel_labels, channel_frames, status_info_labels,
             guiPc, timers, channel_num>>
cliVars == <<cliPc, data, channel, printed, stopMsgs>>
histVars == <<genCalls, aggCalls, rendered, waited, interruptedAt, faulted>>
vars == <<program, guiVars, cliVars, styled, histVars>>

(***************************************************************************)
(* GUI: BatteryMonitorApp                                                  *)
(***************************************************************************)
\* a generator whose loop stops one channel early: range(1, 48)
GenerateOneShort(stream) ==
  [i \in 1..47 |->
     [voltage |-> Round3(Uniform(VoltLo, VoltHi, Draw(stream, 2 * (i - 1)))),
      current |-> Round3(Uniform(CurLo, CurHi, Draw(stream, 2 * (i - 1) + 1)))]]

\* _generate_channel_data: channel i takes draws 2(i-1) and 2(i-1)+1
_generate_channel_data(stream) ==
  [i \in 1..48 |->      \* range(1, 49)
     [voltage |-> Round3(Uniform(VoltLo, VoltHi, Draw(stream, 2 * (i - 1)))),
      current |-> Round3(Uniform(CurLo, CurHi, Draw(stream, 2 * (i - 1) + 1)))]]

RECURSIVE SumValues(_, _, _)
\* `for data in self.channel_data.values(): total += data.get(field, 0.0)`:
\* the values come in insertion order, which is the order of the keys 1..n
SumValues(cd, n, field) ==
  IF n = 0 THEN 0
  ELSE SumValues(cd, n - 1, field) + (IF n \in DOMAIN cd THEN cd[n][field] ELSE 0)

\* an aggregate that adds the voltage to both totals
AggregateVoltageTwice(cd) ==
  [total_voltage |-> SumValues(cd, 48, "voltage"),
   total_current |-> SumValues(cd, 48, "voltage")]

\* _calculate_aggregate_data: totals start at 0 and add every value of the dict
_calculate_aggregate_data(cd) ==
  [total_voltage |-> SumValues(cd, 48, "voltage"),
   total_current |-> SumValues(cd, 48, "current")]

\* a classifier whose thresholds are not strict: <= 3.100 and >= 4.150
ApplyStyleNotStrict(num, voltage_val) ==
  IF num = RedChannel
    THEN [frame_bg |-> "red", applied_style |-> "Channel.Red.TLabel"]
  ELSE IF num = YellowChannel
    THEN [frame_bg |-> "yellow", applied_style |-> "Channel.Yellow.TLabel"]
  ELSE IF voltage_val <= LowThreshold
    THEN [frame_bg |-> "lightblue", applied_style |-> "Channel.LightBlue.TLabel"]
  ELSE IF voltage_val >= HighThreshold
    THEN [frame_bg |-> "lightgreen", applied_style |-> "Channel.LightGreen.TLabel"]
  ELSE [frame_bg |-> "white", applied_style |-> "Channel.Default.TLabel"]

\* _apply_channel_style: the frame background and the label style it sets
_apply_channel_style(num, voltage_val) ==
  IF num = RedChannel
    THEN [frame_bg |-> "red", applied_style |-> "Channel.Red.TLabel"]
  ELSE IF num = YellowChannel
    THEN [frame_bg |-> "yellow", applied_style |-> "Channel.Yellow.TLabel"]
  ELSE IF voltage_val < LowThreshold
    THEN [frame_bg |-> "lightblue", applied_style |-> "Channel.LightBlue.TLabel"]
  ELSE IF voltage_val > HighThreshold
    THEN [frame_bg |-> "lightgreen", applied_style |-> "Channel.LightGreen.TLabel"]
  ELSE [frame_bg |-> "white", applied_style |-> "Channel.Default.TLabel"]

\* channel_data.get(n, {"voltage": 0.0, "current": 0.0})["voltage"]
VoltageOrZero(cd, n) == IF n \in DOMAIN cd THEN cd[n].voltage ELSE 0

\* create_channel_grid: one frame and one label per channel 1..48
create_channel_grid(cd) ==
  [labels |-> [n \in 1..48 |->
                 [text  |-> Fmt3(VoltageOrZero(cd, n), "V"),
                  style |-> _apply_channel_style(n, VoltageOrZero(cd, n)).applied_style]],
   frames |-> [n \in 1..48 |->
                 [bg |-> _apply_channel_style(n, VoltageOrZero(cd, n)).frame_bg]]]

\* the texts create_right_panel and update_data_periodically give the two labels
StatusTexts(agg) ==
  { [total_voltage |-> tv, total_current |-> Fmt3(agg.total_current, "A")] :
      tv \in Fmt1(agg.total_voltage, "V") }

\* the state a run of another program leaves the GUI variables in
GuiOff ==
  /\ channel_data = << >> /\ channel_labels = << >> /\ channel_frames = << >>
  /\ status_info_labels = << >> /\ guiPc = "off" /\ timers = 0 /\ channel_num = 0

\* __init__: generate, build the grid and the panels, start the first timer
GuiInit ==
  \E stream \in Streams :
    LET cd   == _generate_channel_data(stream)
        grid == create_channel_grid(cd)
    IN  /\ channel_data = cd
        /\ channel_labels = grid.labels
        /\ channel_frames = grid.frames
        /\ status_info_labels \in StatusTexts(_calculate_aggregate_data(cd))
        /\ guiPc = "idle"
        /\ timers = 1
        /\ channel_num = 0
        /\ genCalls = 1 /\ aggCalls = 1 /\ rendered = 1..48

\* mainloop fires a pending timer: update_data_periodically starts (line 232)
TimerFires ==
  /\ program = "gui" /\ guiPc = "idle" /\ timers > 0
  /\ timers' = timers - 1
  /\ guiPc' = "generate"
  /\ genCalls' = 0 /\ aggCalls' = 0 /\ rendered' = {}
  /\ waited' = TRUE
  /\ UNCHANGED <<program, channel_data, channel_labels, channel_frames,
                 status_info_labels, channel_num, cliVars, styled,
                 interruptedAt, faulted>>

\* self.channel_data = self._generate_channel_data() (line 234)
UpdateGenerate ==
  /\ program = "gui" /\ guiPc = "generate"
  /\ \E stream \in Streams : channel_data' = _generate_channel_data(stream)
  /\ genCalls' = genCalls + 1
  /\ channel_num' = 1
  /\ guiPc' = "render"
  /\ UNCHANGED <<program, channel_labels, channel_frames, status_info_labels,
                 timers, cliVars, styled, aggCalls, rendered, waited,
                 interruptedAt, faulted>>

\* a render loop that stops one channel early: range(1, 48)
LastRenderedShort == 48 - 1

\* the last value of range(1, 49) in the render loop
LastRendered == 48

\* a loop body that writes the text and leaves the colours alone
UpdateRenderTextOnly ==
  /\ program = "gui" /\ guiPc = "render"
  /\ IF /\ channel_num \in DOMAIN channel_data
        /\ channel_num \in DOMAIN channel_labels
        /\ channel_num \in DOMAIN channel_frames
     THEN /\ channel_labels' =
               [channel_labels EXCEPT ![channel_num].text =
                  Fmt3(channel_data[channel_num].voltage, "V")]
          /\ rendered' = rendered \cup {channel_num}
     ELSE UNCHANGED <<channel_labels, rendered>>
  /\ IF channel_num >= LastRendered
     THEN guiPc' = "status" /\ channel_num' = channel_num
     ELSE guiPc' = "render" /\ channel_num' = channel_num + 1
  /\ UNCHANGED <<program, channel_data, channel_frames, status_info_labels, timers,
                 cliVars, styled, genCalls, aggCalls, waited, interruptedAt, faulted>>

\* one pass of the loop body for channel_num (lines 237-249)
UpdateRenderChannel ==
  /\ program = "gui" /\ guiPc = "render"
  /\ IF /\ channel_num \in DOMAIN channel_data
        /\ channel_num \in DOMAIN channel_labels
        /\ channel_num \in DOMAIN channel_frames
     THEN LET voltage == channel_data[channel_num].voltage
              style   == _apply_channel_style(channel_num, voltage)
          IN  /\ channel_labels' =
                   [channel_labels EXCEPT ![channel_num] =
                      [text |-> Fmt3(voltage, "V"), style |-> style.applied_style]]
              /\ channel_frames' =
                   [channel_frames EXCEPT ![channel_num] = [bg |-> style.frame_bg]]
              /\ rendered' = rendered \cup {channel_num}
     ELSE UNCHANGED <<channel_labels, channel_frames, rendered>>
  /\ IF channel_num >= LastRendered
     THEN guiPc' = "status" /\ channel_num' = channel_num
     ELSE guiPc' = "render" /\ channel_num' = channel_num + 1
  /\ UNCHANGED <<program, channel_data, status_info_labels, timers, cliVars,
                 styled, genCalls, aggCalls, waited, interruptedAt, faulted>>

\* recompute the totals and write both status labels (lines 252-256)
UpdateStatus ==
  /\ program = "gui" /\ guiPc = "status"
  /\ status_info_labels' \in StatusTexts(_calculate_aggregate_data(channel_data))
  /\ aggCalls' = aggCalls + 1
  /\ guiPc' = "reschedule"
  /\ UNCHANGED <<program, channel_data, channel_labels, channel_frames, timers,
                 channel_num, cliVars, styled, genCalls, rendered, waited,
                 interruptedAt, faulted>>

\* a callback that schedules itself twice
UpdateRescheduleTwice ==
  /\ program = "gui" /\ guiPc = "reschedule"
  /\ timers' = timers + 2
  /\ guiPc' = "idle"
  /\ UNCHANGED <<program, channel_data, channel_labels, channel_frames,
                 status_info_labels, channel_num, cliVars, styled, histVars>>

\* a callback that returns without scheduling the next one
UpdateNoReschedule ==
  /\ program = "gui" /\ guiPc = "reschedule"
  /\ guiPc' = "idle"
  /\ UNCHANGED <<program, channel_data, channel_labels, channel_frames,
                 status_info_labels, timers, channel_num, cliVars, styled, histVars>>

\* self.root.after(15000, self.update_data_periodically); the callback returns
UpdateReschedule ==
  /\ program = "gui" /\ guiPc = "reschedule"
  /\ timers' = timers + 1
  /\ guiPc' = "idle"
  /\ UNCHANGED <<program, channel_data, channel_labels, channel_frames,
                 status_info_labels, channel_num, cliVars, styled, histVars>>

\* the user closes the window: mainloop returns and pending timers die with it
WindowClose ==
  /\ program = "gui" /\ guiPc = "idle"
  /\ guiPc' = "closed"
  /\ timers' = 0
  /\ UNCHANGED <<program, channel_data, channel_labels, channel_frames,
                 status_info_labels, channel_num, cliVars, styled, histVars>>

(***************************************************************************)
(* CLI: old/main.py                                                        *)
(***************************************************************************)
\* f"ch{i}"
ChId(i) == <<"ch", i>>

\* generate_channel_data: the list of 48 readings, in the order appended
generate_channel_data(stream) ==
  [i \in 1..48 |->      \* range(1, 49)
     [id      |-> ChId(i),
      voltage |-> Round3(Uniform(VoltLo, VoltHi, Draw(stream, 2 * (i - 1)))),
      current |-> Round3(Uniform(CurLo, CurHi, Draw(stream, 2 * (i - 1) + 1)))]]

\* the channel line of line 26
ChannelLine(ch) ==
  [id |-> ch.id, voltage |-> Fmt3(ch.voltage, "V"), current |-> Fmt3(ch.current, "A")]

CliOff ==
  /\ cliPc = "off" /\ data = << >> /\ channel = 0 /\ printed = << >> /\ stopMsgs = 0

\* main is entered; nothing is written yet
CliInit ==
  /\ cliPc = "start" /\ data = << >> /\ channel = 0 /\ printed = << >> /\ stopMsgs = 0
  /\ genCalls = 0 /\ aggCalls = 0 /\ rendered = {}

\* the two banner lines (lines 19-20), then the try block is entered
CliBanner ==
  /\ program = "cli" /\ cliPc = "start"
  /\ cliPc' = "generate"
  /\ UNCHANGED <<program, guiVars, data, channel, printed, stopMsgs, styled, histVars>>

\* data = generate_channel_data() (line 23)
CliGenerate ==
  /\ program = "cli" /\ cliPc = "generate"
  /\ \E stream \in Streams : data' = generate_channel_data(stream)
  /\ genCalls' = genCalls + 1
  /\ cliPc' = "header"
  /\ UNCHANGED <<program, guiVars, channel, printed, stopMsgs, styled,
                 aggCalls, rendered, waited, interruptedAt, faulted>>

\* the time-stamp line (line 24); the for loop starts
CliHeader ==
  /\ program = "cli" /\ cliPc = "header"
  /\ printed' = << >>
  /\ channel' = 1
  /\ cliPc' = IF Len(data) = 0 THEN "sleep" ELSE "lines"
  /\ UNCHANGED <<program, guiVars, data, stopMsgs, styled, histVars>>

\* one pass of `for channel in data` (lines 25-26)
CliLine ==
  /\ program = "cli" /\ cliPc = "lines"
  /\ printed' = Append(printed, ChannelLine(data[channel]))
  /\ IF channel >= Len(data)
     THEN cliPc' = "sleep" /\ channel' = channel
     ELSE cliPc' = "lines" /\ channel' = channel + 1
  /\ UNCHANGED <<program, guiVars, data, stopMsgs, styled, histVars>>

\* time.sleep(15) returns (line 27) and the loop starts over
CliSleep ==
  /\ program = "cli" /\ cliPc = "sleep"
  /\ cliPc' = "generate"
  /\ genCalls' = 0
  /\ waited' = TRUE
  /\ UNCHANGED <<program, guiVars, data, channel, printed, stopMsgs, styled,
                 aggCalls, rendered, interruptedAt, faulted>>

\* the positions of main inside the try block
InTry == {"generate", "header", "lines", "sleep"}

\* a try block inside the while loop: the message is written and the loop goes on
CliInterruptResumes ==
  /\ program = "cli" /\ cliPc \in InTry
  /\ stopMsgs' = stopMsgs + 1
  /\ cliPc' = "generate"
  /\ interruptedAt' = cliPc
  /\ UNCHANGED <<program, guiVars, data, channel, printed, styled,
                 genCalls, aggCalls, rendered, waited, faulted>>

\* KeyboardInterrupt inside the try block: the except clause writes the
\* termination message and main returns (lines 28-29)
CliInterrupt ==
  /\ program = "cli" /\ cliPc \in InTry
  /\ stopMsgs' = stopMsgs + 1
  /\ cliPc' = "done"
  /\ interruptedAt' = cliPc
  /\ UNCHANGED <<program, guiVars, data, channel, printed, styled,
                 genCalls, aggCalls, rendered, waited, faulted>>

\* KeyboardInterrupt while the banner is written: outside the try block, so
\* the exception leaves main
CliInterruptBanner ==
  /\ program = "cli" /\ cliPc = "start"
  /\ cliPc' = "crashed"
  /\ interruptedAt' = cliPc
  /\ UNCHANGED <<program, guiVars, data, channel, printed, stopMsgs, styled,
                 genCalls, aggCalls, rendered, waited, faulted>>

(***************************************************************************)
(* Faults: an exception other than KeyboardInterrupt raised by a step.     *)
(***************************************************************************)
\* a main whose except clause catches every exception
CliFaultCaught ==
  /\ program = "cli" /\ cliPc \in InTry
  /\ stopMsgs' = stopMsgs + 1
  /\ cliPc' = "done"
  /\ faulted' = cliPc
  /\ UNCHANGED <<program, guiVars, data, channel, printed, styled,
                 genCalls, aggCalls, rendered, waited, interruptedAt>>

\* main catches KeyboardInterrupt only (line 28): any other exception leaves
\* main and ends the process with a traceback
CliFault ==
  /\ program = "cli" /\ cliPc \in InTry \cup {"start"}
  /\ cliPc' = "crashed"
  /\ faulted' = cliPc
  /\ UNCHANGED <<program, guiVars, data, channel, printed, stopMsgs, styled,
                 genCalls, aggCalls, rendered, waited, interruptedAt>>

\* update_data_periodically has no try block (lines 231-259): the exception
\* leaves the callback before line 259.  The callback was started by Tk's
\* event loop (root.after, root.mainloop), which reports the exception of a
\* callback and goes on waiting for events.
GuiFault ==
  /\ program = "gui" /\ guiPc \in {"generate", "render", "status", "reschedule"}
  /\ guiPc' = "idle"
  /\ faulted' = guiPc
  /\ UNCHANGED <<program, channel_data, channel_labels, channel_frames,
                 status_info_labels, timers, channel_num, cliVars, styled,
                 genCalls, aggCalls, rendered, waited, interruptedAt>>

(***************************************************************************)
(* The classifier alone: one call of _apply_channel_style on any channel   *)
(* and any voltage of the generator's range.                               *)
(***************************************************************************)
StyleInit ==
  /\ program = "classifier"
  /\ styled \in [channel_num : 1..48, voltage_val : VoltLo..VoltHi,
                 frame_bg : {"unset"}, applied_style : {"unset"}]
  /\ GuiOff /\ CliOff
  /\ genCalls = 0 /\ aggCalls = 0 /\ rendered = {}
  /\ waited = FALSE /\ interruptedAt = "none" /\ faulted = "none"

\* data_frame.config(bg=frame_bg); voltage_label.configure(style=applied_style)
ApplyStyle ==
  /\ program = "classifier" /\ styled.frame_bg = "unset"
  /\ LET s == _apply_channel_style(styled.channel_num, styled.voltage_val)
     IN  styled' = [styled EXCEPT !.frame_bg = s.frame_bg,
                                  !.applied_style = s.applied_style]
  /\ UNCHANGED <<program, guiVars, cliVars, histVars>>

StyleSpec == StyleInit /\ [][ApplyStyle]_vars

(***************************************************************************)
(* The two programs.                                                       *)
(***************************************************************************)
Init ==
  /\ program \in {"gui", "cli"}
  /\ IF program = "gui" THEN GuiInit /\ CliOff ELSE CliInit /\ GuiOff
  /\ styled = << >>
  /\ waited = FALSE /\ interruptedAt = "none" /\ faulted = "none"

GuiNext ==
  \/ TimerFires
  \/ UpdateGenerate
  \/ UpdateRenderChannel
  \/ UpdateStatus
  \/ UpdateReschedule
  \/ WindowClose

CliNext ==
  \/ CliBanner
  \/ CliGenerate
  \/ CliHeader
  \/ CliLine
  \/ CliSleep
  \/ CliInterrupt
  \/ CliInterruptBanner

Next == GuiNext \/ CliNext

Spec == Init /\ [][Next]_vars

\* The event loop fires a pending timer and a callback runs to its end; the
\* sleep returns and main goes on.  Closing the window and Ctrl+C are up to
\* the user.
GuiSteps ==
  \/ TimerFires
  \/ UpdateGenerate
  \/ UpdateRenderChannel
  \/ UpdateStatus
  \/ UpdateReschedule

CliSteps ==
  \/ CliBanner
  \/ CliGenerate
  \/ CliHeader
  \/ CliLine
  \/ CliSleep

FairSpec == Init /\ [][Next]_vars /\ WF_vars(GuiSteps) /\ WF_vars(CliSteps)

\* the two programs with faults
FaultNext ==
  \/ Next
  \/ CliFault
  \/ GuiFault

FaultSpec == Init /\ [][FaultNext]_vars

(***************************************************************************)
(* Properties.                                                             *)
(***************************************************************************)
Channels == 1..NumChannels

\* the value a "%.3f" text shows, in thousandths
TextValue(t) == t.whole * 1000 + t.frac

\* positions of the GUI inside update_data_periodically
Refreshing == {"generate", "render", "status", "reschedule"}

\* the CLI holds a reading set of the current or an earlier cycle
CliHasData == cliPc \in {"header", "lines", "sleep"} \/ waited

(* C1: every generated reading set has exactly the 48 ids 1..48 ("ch1".."ch48"
   in the CLI), each once: the GUI's channel_data has the key set 1..48 in
   every state, and the CLI's list has 48 entries, entry i with id "ch<i>". *)
C1_IdsOnceEach ==
  /\ program = "gui" => DOMAIN channel_data = Channels
  /\ (program = "cli" /\ CliHasData) =>
        /\ Len(data) = NumChannels
        /\ \A i \in Channels : Cardinality({k \in DOMAIN data : data[k].id = ChId(i)}) = 1
        /\ \A k \in DOMAIN data : \E i \in Channels : data[k].id = ChId(i)

C1_Witness ==
  /\ program = "gui" /\ guiPc = "idle" /\ waited
  /\ Cardinality(DOMAIN channel_data) = 48

(* C2: in thousandths, every stored reading has voltage in 3000..4200 and
   current in 1..1000, and so has every voltage shown in a cell and every
   voltage and current printed by the CLI. *)
C2_Ranges ==
  /\ \A n \in DOMAIN channel_data :
        /\ channel_data[n].voltage \in VoltLo..VoltHi
        /\ channel_data[n].current \in CurLo..CurHi
  /\ \A n \in DOMAIN channel_labels :
        TextValue(channel_labels[n].text) \in VoltLo..VoltHi
  /\ \A k \in DOMAIN data :
        /\ data[k].voltage \in VoltLo..VoltHi
        /\ data[k].current \in CurLo..CurHi
  /\ \A k \in DOMAIN printed :
        /\ TextValue(printed[k].voltage) \in VoltLo..VoltHi
        /\ TextValue(printed[k].current) \in CurLo..CurHi

C2_Witness ==
  /\ program = "gui" /\ guiPc = "idle" /\ waited
  /\ \E n \in Channels : channel_data[n].voltage = VoltLo /\ TextValue(channel_labels[n].text) = VoltLo
  /\ \E n \in Channels : channel_data[n].voltage = VoltHi /\ TextValue(channel_labels[n].text) = VoltHi
  /\ \E n \in Channels : channel_data[n].current = CurLo
  /\ \E n \in Channels : channel_data[n].current = CurHi

\* the category a frame background / a label style names
CategoryOfBg(bg) ==
  CASE bg = "red" -> "critical-red"
    [] bg = "yellow" -> "warning-yellow"
    [] bg = "lightblue" -> "low-blue"
    [] bg = "lightgreen" -> "high-green"
    [] bg = "white" -> "normal-white"
    [] OTHER -> "none"

CategoryOfStyle(st) ==
  CASE st = "Channel.Red.TLabel" -> "critical-red"
    [] st = "Channel.Yellow.TLabel" -> "warning-yellow"
    [] st = "Channel.LightBlue.TLabel" -> "low-blue"
    [] st = "Channel.LightGreen.TLabel" -> "high-green"
    [] st = "Channel.Default.TLabel" -> "normal-white"
    [] OTHER -> "none"

\* the decision list of the classifier, as the claim words it
ClaimedCategory(id, voltage) ==
  CASE id = 1 -> "critical-red"
    [] id # 1 /\ id = 9 -> "warning-yellow"
    [] id \notin {1, 9} /\ voltage < 3100 -> "low-blue"
    [] id \notin {1, 9} /\ voltage >= 3100 /\ voltage > 4150 -> "high-green"
    [] OTHER -> "normal-white"

(* C3: for every channel 1..48 and every voltage 3.000..4.200 the classifier
   picks the category of the decision list (id 1 red, else id 9 yellow, else
   below 3.100 blue, else above 4.150 green, else white; both thresholds
   strict), and the frame background and the label style name that same
   category. *)
C3_Classifier ==
  (program = "classifier" /\ styled.frame_bg # "unset") =>
     /\ CategoryOfBg(styled.frame_bg) = ClaimedCategory(styled.channel_num, styled.voltage_val)
     /\ CategoryOfStyle(styled.applied_style) = CategoryOfBg(styled.frame_bg)
     /\ (styled.channel_num \notin {1, 9} /\ styled.voltage_val \in {3100, 4150})
           => styled.frame_bg = "white"

C3_Witness ==
  /\ program = "classifier"
  /\ styled.channel_num = 5 /\ styled.voltage_val = 4150
  /\ styled.frame_bg = "white" /\ styled.applied_style = "Channel.Default.TLabel"

RECURSIVE TotalUpTo(_, _)
\* the sum of one field over channels 1..n of the current reading set
TotalUpTo(n, field) ==
  IF n = 0 THEN 0 ELSE channel_data[n][field] + TotalUpTo(n - 1, field)

(* C4: the aggregate is the sum of the 48 voltages and the sum of the 48
   currents of the current reading set (all readings 3.500 V / 0.500 A give
   168.0 V / 24.0 A), and whenever the GUI is idle the status panel shows
   the totals of the current reading set. *)
C4_Aggregate ==
  program = "gui" =>
     LET agg == _calculate_aggregate_data(channel_data)
     IN  /\ agg.total_voltage = TotalUpTo(NumChannels, "voltage")
         /\ agg.total_current = TotalUpTo(NumChannels, "current")
         /\ (\A n \in Channels : channel_data[n] = [voltage |-> 3500, current |-> 500])
               => agg = [total_voltage |-> 168000, total_current |-> 24000]
         /\ guiPc = "idle" =>
               /\ TextValue(status_info_labels.total_current) = TotalUpTo(NumChannels, "current")
               /\ status_info_labels.total_current.unit = "A"
               /\ status_info_labels.total_voltage.unit = "V"
               /\ LET shown == 100 * (10 * status_info_labels.total_voltage.whole
                                        + status_info_labels.total_voltage.frac)
                      total == TotalUpTo(NumChannels, "voltage")
                  IN  shown - 50 <= total /\ total <= shown + 50

C4_Witness ==
  /\ program = "gui" /\ guiPc = "idle" /\ waited
  /\ \A n \in Channels : channel_data[n] = [voltage |-> 3500, current |-> 500]
  /\ status_info_labels.total_voltage = [whole |-> 168, frac |-> 0, digits |-> 1, unit |-> "V"]
  /\ status_info_labels.total_current = [whole |-> 24, frac |-> 0, digits |-> 3, unit |-> "A"]

\* the ids of the lines printed since the last header, in order
PrintedIds == [k \in DOMAIN printed |-> printed[k].id]

AllIdsInOrder == [i \in Channels |-> ChId(i)]

\* C5 as stated: both programs recompute the aggregate in every cycle
C5_Original ==
  /\ (program = "gui" /\ guiPc = "idle") =>
        genCalls = 1 /\ aggCalls = 1 /\ rendered = Channels
  /\ (program = "cli" /\ cliPc = "sleep") =>
        genCalls = 1 /\ aggCalls = 1 /\ PrintedIds = AllIdsInOrder

(* C5 (amended): when a cycle ends (the GUI is idle again, the CLI sleeps)
   the generator was called exactly once in it and every one of the 48
   channels was rendered (GUI) or printed, in order (CLI); the GUI also
   recomputed the aggregate exactly once, after all 48 cells were rendered,
   while the CLI computes no aggregate. *)
C5_Cycle ==
  /\ (program = "gui" /\ guiPc = "idle") =>
        genCalls = 1 /\ aggCalls = 1 /\ rendered = Channels
  /\ (program = "gui" /\ guiPc = "reschedule") =>
        genCalls = 1 /\ aggCalls = 1 /\ rendered = Channels
  /\ (program = "gui" /\ guiPc = "status") =>
        genCalls = 1 /\ aggCalls = 0 /\ rendered = Channels
  /\ (program = "cli" /\ cliPc = "sleep") =>
        genCalls = 1 /\ aggCalls = 0 /\ PrintedIds = AllIdsInOrder
  /\ (program = "cli" /\ cliPc = "sleep") =>
        \A k \in Channels : printed[k] = ChannelLine(data[k])

C5_Witness ==
  /\ program = "cli" /\ cliPc = "sleep" /\ waited
  /\ genCalls = 1 /\ aggCalls = 0 /\ Len(printed) = 48

(* C6: a KeyboardInterrupt that arrives inside the loop of main (while
   generating, printing or sleeping) makes main write the termination message
   exactly once and return; afterwards no reading set is generated and no
   channel line is printed. *)
C6_Interrupt ==
  [][ /\ interruptedAt' \in InTry => (cliPc' = "done" /\ stopMsgs' = 1)
      /\ interruptedAt \in InTry =>
            (data' = data /\ printed' = printed /\ genCalls' = genCalls) ]_vars

C6_Witness ==
  /\ program = "cli" /\ interruptedAt = "lines" /\ cliPc = "done"
  /\ stopMsgs = 1 /\ Len(printed) \in 1..47 /\ waited

\* C7 as stated: after a fault, in either program, the process has terminated
C7_Original ==
  faulted # "none" =>
     \/ program = "cli" /\ cliPc = "crashed"
     \/ program = "gui" /\ guiPc \in {"crashed", "closed"}

(* C7 (amended): in the CLI a fault other than KeyboardInterrupt, at any step,
   ends the process: main neither goes on nor writes the termination message.
   In the GUI a fault inside the refresh callback does not end the process:
   the event loop keeps running (idle) until the window is closed, with no
   timer pending, so no refresh ever runs again. *)
C7_Faults ==
  [][ /\ (program = "cli" /\ faulted' # "none") => (cliPc' = "crashed" /\ stopMsgs' = 0)
      /\ (program = "gui" /\ faulted' # "none") => (guiPc' \in {"idle", "closed"} /\ timers' = 0)
      /\ faulted # "none" => (channel_data' = channel_data /\ data' = data
                              /\ genCalls' = genCalls /\ printed' = printed) ]_vars

C7_Witness ==
  /\ program = "gui" /\ faulted = "render" /\ guiPc = "idle" /\ timers = 0
  /\ waited /\ rendered # {} /\ rendered # Channels

(* C8: in the GUI exactly one timer is pending while idle and none while the
   callback runs (the next one is set by its last statement), so the number
   of pending timers never exceeds one and no second callback can start
   before the running one has returned. *)
C8_OneTimer ==
  program = "gui" =>
     /\ timers \in {0, 1}
     /\ guiPc = "idle" => timers = 1
     /\ guiPc \in Refreshing => timers = 0
     /\ guiPc = "closed" => timers = 0

C8_Witness ==
  program = "gui" /\ guiPc = "reschedule" /\ timers = 0 /\ waited /\ aggCalls = 1

(* C9: whenever the GUI is idle, every cell 1..48 shows the voltage of its
   channel in the current reading set and has the category the classifier
   gives that id and voltage, both as background and as label style; the
   cells are those of channels 1..48 in every state. *)
C9_CellsCurrent ==
  program = "gui" =>
     /\ DOMAIN channel_labels = Channels
     /\ DOMAIN channel_frames = Channels
     /\ guiPc = "idle" =>
           \A n \in Channels :
              /\ channel_labels[n].text.digits = 3
              /\ channel_labels[n].text.unit = "V"
              /\ TextValue(channel_labels[n].text) = channel_data[n].voltage
              /\ CategoryOfBg(channel_frames[n].bg)
                    = ClaimedCategory(n, channel_data[n].voltage)
              /\ CategoryOfStyle(channel_labels[n].style)
                    = ClaimedCategory(n, channel_data[n].voltage)

C9_Witness ==
  /\ program = "gui" /\ guiPc = "idle" /\ waited
  /\ \E n \in Channels : channel_frames[n].bg = "lightblue"
  /\ \E n \in Channels : channel_frames[n].bg = "lightgreen"
  /\ \E n \in Channels : channel_frames[n].bg = "white" /\ channel_data[n].voltage = 3100

(* C10: the refresh loop does not stop by itself.  GUI: no refresh runs
   before the first timer has fired, and unless the window is closed a
   refresh starts again and again.  CLI: the first reading set is generated
   and printed before any sleep has returned, and unless main has ended
   (Ctrl+C) a reading set is generated again and again. *)
C10_RefreshForever ==
  /\ [][ /\ (program = "gui" /\ guiPc' \in Refreshing) => waited'
         /\ (program = "cli" /\ ~waited /\ waited') =>
               (genCalls = 1 /\ PrintedIds = AllIdsInOrder) ]_vars
  /\ []<>(\/ program = "gui" /\ guiPc \in {"generate", "closed"}
          \/ program = "cli" /\ cliPc \in {"generate", "done", "crashed"})

C10_Witness ==
  program = "gui" /\ guiPc = "idle" /\ waited /\ timers = 1 /\ genCalls = 1

====
